---- MODULE Spec2Model ----
(***************************************************************************)
(* Model of the truck load board: the server (src/server.ts) with its      *)
(* relational store, the auth middleware, the account, board and message   *)
(* routes and the socket.io chat handlers, and the messages page of the    *)
(* browser client (src/unnamed/part_000) with its poll loop.               *)
(***************************************************************************)
EXTENDS Integers, Sequences, FiniteSets, TLC

\* ------------------------------------------------------------------ bounds
\* Number of rows the messages table may hold in the model.
MaxMsgs == 2
\* Largest value of the store's clock (CURRENT_TIMESTAMP, one-second steps).
MaxClock == 1
\* Number of rows the load board tables may be given in the model.
MaxRows == 2
\* Number of history responses that may be on their way to the client.
MaxInFlight == 2

\* ------------------------------------------------------------------ inputs
Emails == {"a@x", "b@x", "c@x"}
Roles == {"shipper", "driver", "admin"}
\* Identifiers a client can put in a header, a body or a socket payload.
\* users.id is AUTOINCREMENT and emails are unique, so no id above
\* Cardinality(Emails) ever exists.
Ids == 1..Cardinality(Emails)
NoHeader == 0
Headers == Ids \cup {NoHeader}
\* SQL NULL (a body or payload without a content field binds NULL).
NullContent == "<null>"
Contents == {NullContent, "", "hi"}
\* The socket.io connections, and the user operating each: the server never
\* learns who that is, the connection handler takes no credential.
Sockets == {"s1"}
Party(s) == 1

VARIABLES
    users,      \* table users: row i has id i
    messages,   \* table messages: row i has id i
    clock,      \* CURRENT_TIMESTAMP of the store
    tieOrder,   \* order the engine returns rows with equal ORDER BY keys in
    rooms,      \* socket.io: rooms[s] = user ids whose room user_<id> s joined
    received,   \* receive_message events emitted to each connection, in order
    last,       \* the last request or socket event and its outcome
    loads,      \* table loads (rows can be deleted)
    loadSeq,    \* sqlite_sequence of loads: the largest id handed out
    trucks,     \* table trucks: row i has id i
    applications, \* table applications: row i has id i
    reviews,    \* table reviews: row i has id i
    selectedChat, \* client, MessagesPage: the selected conversation (0 = null)
    shown,      \* client, MessagesPage: the messages state that is rendered
    fetches,    \* client: history responses on their way to the page
    intervals,  \* client: chats whose setInterval timer is running
    sends,      \* client: send responses on their way to the page
    crashed,    \* client: a render threw and React unmounted the tree
    user        \* client, AuthProvider: the logged-in user (and localStorage)

\* The tables of the load board.
boardVars == <<loads, loadSeq, trucks, applications, reviews>>

\* The state of the browser client on its messages page.
clientVars ==
    <<selectedChat, shown, fetches, intervals, sends, crashed, user>>

vars == <<users, messages, clock, tieOrder, rooms, received, last, boardVars,
          clientVars>>

\* ------------------------------------------------------------------ store
UserIds == 1..Len(users)

UserRow(id, email, role) ==
    [id |-> id, email |-> email, role |-> role,
     is_approved |-> IF role = "admin" THEN 1 ELSE 0]

\* Mutant: the column is declared without UNIQUE.
EmailAny(email) == TRUE

\* email TEXT UNIQUE NOT NULL
EmailUnique(email) == \A i \in UserIds : users[i].email # email

\* Mutant: foreign keys not enforced (PRAGMA foreign_keys = OFF).
ForeignKeysOff(senderId, receiverId) == TRUE

\* FOREIGN KEY (sender_id) / (receiver_id) REFERENCES users(id); the
\* better-sqlite3 build enforces foreign keys by default.
ForeignKeysOk(senderId, receiverId) ==
    senderId \in UserIds /\ receiverId \in UserIds

\* content TEXT NOT NULL: the empty string is not NULL.
NotNullOk(content) == content # NullContent

\* Mutant: the receiver's foreign key is missing from the table.
InsertOkSenderOnly(senderId, receiverId, content) ==
    senderId \in UserIds /\ NotNullOk(content)

InsertOk(senderId, receiverId, content) ==
    ForeignKeysOk(senderId, receiverId) /\ NotNullOk(content)

\* The message of the SqliteError the failed INSERT throws.
InsertError(senderId, receiverId, content) ==
    IF ~NotNullOk(content) THEN "NOT NULL" ELSE "FOREIGN KEY"

MessageRow(id, senderId, receiverId, content) ==
    [id |-> id, sender_id |-> senderId, receiver_id |-> receiverId,
     content |-> content, created_at |-> clock]

\* Mutant: INSERT OR REPLACE on the newest identifier overwrites that row.
InsertOrReplace(senderId, receiverId, content) ==
    IF messages = <<>>
    THEN <<[id |-> 1, sender_id |-> senderId, receiver_id |-> receiverId,
            content |-> content, created_at |-> clock]>>
    ELSE [messages EXCEPT ![Len(messages)] =
            [id |-> Len(messages), sender_id |-> senderId,
             receiver_id |-> receiverId, content |-> content,
             created_at |-> clock]]

\* INSERT INTO messages (sender_id, receiver_id, content): AUTOINCREMENT id,
\* created_at DEFAULT CURRENT_TIMESTAMP.
InsertMessage(senderId, receiverId, content) ==
    Append(messages,
           MessageRow(Len(messages) + 1, senderId, receiverId, content))

\* Mutant: only the caller's own direction, WHERE sender_id = ? AND receiver_id = ?
WhereOneWay(m, p1, p2, p3, p4) == m.sender_id = p1 /\ m.receiver_id = p2

\* WHERE (sender_id = ? AND receiver_id = ?) OR (sender_id = ? AND receiver_id = ?)
WhereMatches(m, p1, p2, p3, p4) ==
    \/ (m.sender_id = p1 /\ m.receiver_id = p2)
    \/ (m.sender_id = p3 /\ m.receiver_id = p4)

\* ORDER BY created_at ASC, with no second key. SQLite: "the order in which
\* two rows for which all ORDER BY expressions evaluate to equal values are
\* returned is undefined". The engine is deterministic, so the order of ties
\* is one fixed but unknown order (tieOrder), the same for every query.
ComesBefore(i, j) ==
    \/ messages[i].created_at < messages[j].created_at
    \/ /\ messages[i].created_at = messages[j].created_at
       /\ IF tieOrder = "rowid_asc" THEN i < j ELSE i > j

OrderByCreatedAt(S) ==
    [k \in 1..Cardinality(S) |->
        messages[CHOOSE i \in S :
                    Cardinality({j \in S : ComesBefore(j, i)}) = k - 1]]

\* The query of GET /api/messages/:otherId, bound as
\* .all(req.user.id, req.params.otherId, req.params.otherId, req.user.id).
History(callerId, otherId) ==
    OrderByCreatedAt({i \in 1..Len(messages) :
        WhereMatches(messages[i], callerId, otherId, otherId, callerId)})

\* ------------------------------------------------------------------ auth
\* The auth middleware: the header must name an existing user.
AuthOk(header) == header # NoHeader /\ header \in UserIds

\* ------------------------------------------------------------- responses
\* What the caller sees: the status, the error of the failed statement (if
\* any) and the rows of the JSON body.
Outcome(op, status, error, body) ==
    [op |-> op, status |-> status, error |-> error, body |-> body]

\* ------------------------------------------------------------- socket.io
\* Mutant: the event is queued ahead of the events already emitted.
EmitToFront(rcv, id, message) ==
    [s \in Sockets |->
        IF id \in rooms[s] THEN <<message>> \o rcv[s] ELSE rcv[s]]

\* io.to(`user_${id}`).emit("receive_message", message): every connection
\* in the room gets the event once per emit.
EmitTo(rcv, id, message) ==
    [s \in Sockets |->
        IF id \in rooms[s] THEN Append(rcv[s], message) ELSE rcv[s]]

\* ---------------------------------------------------------------- actions
\* POST /api/auth/signup
Signup(email, role) ==
    /\ IF EmailUnique(email)
       THEN /\ users' = Append(users, UserRow(Len(users) + 1, email, role))
            /\ last' = Outcome("signup", "200", "", <<users'[Len(users')]>>)
       ELSE /\ users' = users
            /\ last' = Outcome("signup", "400", "UNIQUE", <<>>)
    /\ UNCHANGED <<messages, clock, tieOrder, rooms, received>>
    /\ UNCHANGED boardVars
    /\ UNCHANGED clientVars

\* Mutant: the row of the response is read without WHERE id = ?, so it is the
\* first row of the table.
RestSendFirstRow(header, receiverId, content) ==
    /\ Len(messages) < MaxMsgs
    /\ IF ~AuthOk(header)
       THEN /\ messages' = messages
            /\ last' = Outcome("rest_send", "401", "Unauthorized", <<>>)
       ELSE IF ~InsertOk(header, receiverId, content)
       THEN /\ messages' = messages
            /\ last' = Outcome("rest_send", "500", InsertError(header, receiverId, content), <<>>)
       ELSE /\ messages' = InsertMessage(header, receiverId, content)
            /\ last' = Outcome("rest_send", "200", "", <<messages'[1]>>)
    /\ UNCHANGED <<users, clock, tieOrder, rooms, received>>
    /\ UNCHANGED boardVars
    /\ UNCHANGED clientVars

\* POST /api/messages/send (behind auth)
RestSend(header, receiverId, content) ==
    /\ Len(messages) < MaxMsgs
    /\ IF ~AuthOk(header)
       THEN /\ messages' = messages
            /\ last' = Outcome("rest_send", "401", "Unauthorized", <<>>)
       ELSE IF ~InsertOk(header, receiverId, content)
       THEN \* the statement throws; express answers 500
            /\ messages' = messages
            /\ last' = Outcome("rest_send", "500", InsertError(header, receiverId, content), <<>>)
       ELSE /\ messages' = InsertMessage(header, receiverId, content)
            /\ last' = Outcome("rest_send", "200", "", <<messages'[Len(messages')]>>)
    /\ UNCHANGED <<users, clock, tieOrder, rooms, received>>
    /\ UNCHANGED boardVars
    /\ UNCHANGED clientVars

\* Mutant: the read stamps the rows it returns (UPDATE ... SET created_at).
GetMessagesTouch(header, otherId) ==
    /\ IF ~AuthOk(header)
       THEN /\ last' = Outcome("history", "401", "Unauthorized", <<>>)
            /\ messages' = messages
       ELSE /\ last' = Outcome("history", "200", "", History(header, otherId))
            /\ messages' = [i \in 1..Len(messages) |->
                  IF WhereMatches(messages[i], header, otherId, otherId, header)
                  THEN [messages[i] EXCEPT !.created_at = clock]
                  ELSE messages[i]]
    /\ UNCHANGED <<users, clock, tieOrder, rooms, received>>
    /\ UNCHANGED boardVars
    /\ UNCHANGED clientVars

\* Mutant: the route answers 404 when the query finds no row.
HistoryResponseNotFound(header, otherId) ==
    IF ~AuthOk(header)
    THEN Outcome("history", "401", "Unauthorized", <<>>)
    ELSE IF History(header, otherId) = <<>>
    THEN Outcome("history", "404", "Not found", <<>>)
    ELSE Outcome("history", "200", "", History(header, otherId))

\* What GET /api/messages/:otherId answers: the middleware's 401, or the
\* rows of the query.
HistoryResponse(header, otherId) ==
    IF ~AuthOk(header)
    THEN Outcome("history", "401", "Unauthorized", <<>>)
    ELSE Outcome("history", "200", "", History(header, otherId))

\* GET /api/messages/:otherId (behind auth)
GetMessages(header, otherId) ==
    /\ last' = HistoryResponse(header, otherId)
    /\ UNCHANGED <<users, messages, clock, tieOrder, rooms, received>>
    /\ UNCHANGED boardVars
    /\ UNCHANGED clientVars

\* socket.on("join", userId)
Join(s, userId) ==
    /\ rooms' = [rooms EXCEPT ![s] = @ \cup {userId}]
    /\ UNCHANGED <<users, messages, clock, tieOrder, received, last>>
    /\ UNCHANGED boardVars
    /\ UNCHANGED clientVars

\* The connection closes: socket.io takes it out of every room.
Disconnect(s) ==
    /\ rooms[s] # {}
    /\ rooms' = [rooms EXCEPT ![s] = {}]
    /\ UNCHANGED <<users, messages, clock, tieOrder, received, last>>
    /\ UNCHANGED boardVars
    /\ UNCHANGED clientVars

\* socket.on("send_message", {senderId, receiverId, content})
SocketSend(s, senderId, receiverId, content) ==
    /\ Len(messages) < MaxMsgs
    /\ IF ~InsertOk(senderId, receiverId, content)
       THEN \* the statement throws inside the listener: nothing is emitted and
            \* the uncaught exception ends the process, closing every connection
            /\ messages' = messages
            /\ received' = received
            /\ rooms' = [t \in Sockets |-> {}]
            /\ last' = Outcome("socket_send", "thrown", InsertError(senderId, receiverId, content), <<>>)
       ELSE /\ messages' = InsertMessage(senderId, receiverId, content)
            /\ LET message == messages'[Len(messages')]
               IN received' = EmitTo(EmitTo(received, receiverId, message),
                                     senderId, message)
            /\ rooms' = rooms
            /\ last' = Outcome("socket_send", "ok", "", <<messages'[Len(messages')]>>)
    /\ UNCHANGED <<users, clock, tieOrder>>
    /\ UNCHANGED boardVars
    /\ UNCHANGED clientVars

\* A second passes on the store's clock (taken as never stepping back).
Tick ==
    /\ clock < MaxClock
    /\ clock' = clock + 1
    /\ UNCHANGED <<users, messages, tieOrder, rooms, received, last>>
    /\ UNCHANGED boardVars
    /\ UNCHANGED clientVars

\* ------------------------------------------------------------ load board
\* Rows the load board tables (loads, trucks, applications, reviews) are
\* given in the model, all four together.
BoardRows == loadSeq + Len(trucks) + Len(applications) + Len(reviews)

LoadIds == {l.id : l \in loads}

\* SELECT * FROM loads WHERE id = ? (.get: the row, or undefined)
LoadById(id) == CHOOSE l \in loads : l.id = id

\* A rowid scan: the rows of S in increasing id.
ById(S) ==
    [k \in 1..Cardinality(S) |->
        CHOOSE r \in S : Cardinality({q \in S : q.id < r.id}) = k - 1]

\* FOREIGN KEY (load_id) REFERENCES loads(id): rows that reference the load.
ReferencesLoad(id) == {k \in DOMAIN applications : applications[k].load_id = id}

\* POST /api/auth/login
Login(email, passwordMatches) ==
    /\ IF passwordMatches /\ ~EmailUnique(email)
       THEN last' = Outcome("login", "200", "",
                        <<users[CHOOSE i \in UserIds : users[i].email = email]>>)
       ELSE last' = Outcome("login", "401", "Invalid credentials", <<>>)
    /\ UNCHANGED <<users, messages, clock, tieOrder, rooms, received>>
    /\ UNCHANGED boardVars
    /\ UNCHANGED clientVars

\* GET /api/users/me (behind auth)
UsersMe(header) ==
    /\ IF ~AuthOk(header)
       THEN last' = Outcome("me", "401", "Unauthorized", <<>>)
       ELSE last' = Outcome("me", "200", "", <<users[header]>>)
    /\ UNCHANGED <<users, messages, clock, tieOrder, rooms, received>>
    /\ UNCHANGED boardVars
    /\ UNCHANGED clientVars

\* GET /api/admin/users (behind auth)
AdminUsers(header) ==
    /\ IF ~AuthOk(header)
       THEN last' = Outcome("admin_users", "401", "Unauthorized", <<>>)
       ELSE IF users[header].role # "admin"
       THEN last' = Outcome("admin_users", "403", "Forbidden", <<>>)
       ELSE last' = Outcome("admin_users", "200", "", users)
    /\ UNCHANGED <<users, messages, clock, tieOrder, rooms, received>>
    /\ UNCHANGED boardVars
    /\ UNCHANGED clientVars

\* Mutant: the UPDATE has no WHERE clause and approves every user.
ApproveAll(id) == [i \in UserIds |-> [users[i] EXCEPT !.is_approved = 1]]

\* UPDATE users SET is_approved = 1 WHERE id = ?
ApproveUser(id) ==
    [i \in UserIds |-> IF i = id THEN [users[i] EXCEPT !.is_approved = 1]
                                 ELSE users[i]]

\* Mutant: the route does not look at the caller's role.
ApproveAnyRole(header, id) ==
    /\ IF ~AuthOk(header)
       THEN /\ users' = users
            /\ last' = Outcome("approve", "401", "Unauthorized", <<>>)
       ELSE /\ users' = ApproveUser(id)
            /\ last' = Outcome("approve", "200", "", <<>>)
    /\ UNCHANGED <<messages, clock, tieOrder, rooms, received>>
    /\ UNCHANGED boardVars
    /\ UNCHANGED clientVars

\* POST /api/admin/users/:id/approve (behind auth)
Approve(header, id) ==
    /\ IF ~AuthOk(header)
       THEN /\ users' = users
            /\ last' = Outcome("approve", "401", "Unauthorized", <<>>)
       ELSE IF users[header].role # "admin"
       THEN /\ users' = users
            /\ last' = Outcome("approve", "403", "Forbidden", <<>>)
       ELSE /\ users' = ApproveUser(id)
            /\ last' = Outcome("approve", "200", "", <<>>)
    /\ UNCHANGED <<messages, clock, tieOrder, rooms, received>>
    /\ UNCHANGED boardVars
    /\ UNCHANGED clientVars

\* GET /api/loads (no auth): status is 'available' for every row, no route
\* changes it; the JOIN keeps the loads whose shipper exists.
GetLoads ==
    /\ last' = Outcome("loads", "200", "",
                       ById({l \in loads : l.shipper_id \in UserIds}))
    /\ UNCHANGED <<users, messages, clock, tieOrder, rooms, received>>
    /\ UNCHANGED boardVars
    /\ UNCHANGED clientVars

\* POST /api/loads (behind auth); given = the body has the NOT NULL columns
\* pickup_location and delivery_location.
PostLoad(header, given) ==
    /\ BoardRows < MaxRows
    /\ IF ~AuthOk(header)
       THEN /\ UNCHANGED <<loads, loadSeq>>
            /\ last' = Outcome("post_load", "401", "Unauthorized", <<>>)
       ELSE IF users[header].role # "shipper"
       THEN /\ UNCHANGED <<loads, loadSeq>>
            /\ last' = Outcome("post_load", "403", "Only shippers can post loads", <<>>)
       ELSE IF ~given
       THEN /\ UNCHANGED <<loads, loadSeq>>
            /\ last' = Outcome("post_load", "500", "NOT NULL", <<>>)
       ELSE /\ loadSeq' = loadSeq + 1
            /\ loads' = loads \cup {[id |-> loadSeq + 1, shipper_id |-> header]}
            /\ last' = Outcome("post_load", "200", "", <<[id |-> loadSeq + 1]>>)
    /\ UNCHANGED <<users, messages, clock, tieOrder, rooms, received>>
    /\ UNCHANGED <<trucks, applications, reviews>>
    /\ UNCHANGED clientVars

\* GET /api/shipper/loads (behind auth)
ShipperLoads(header) ==
    /\ IF ~AuthOk(header)
       THEN last' = Outcome("shipper_loads", "401", "Unauthorized", <<>>)
       ELSE last' = Outcome("shipper_loads", "200", "",
                            ById({l \in loads : l.shipper_id = header}))
    /\ UNCHANGED <<users, messages, clock, tieOrder, rooms, received>>
    /\ UNCHANGED boardVars
    /\ UNCHANGED clientVars

\* Mutant: the route is registered without the auth middleware and reads the
\* header itself.
DeleteLoadNoAuth(header, id) ==
    /\ IF \/ id \notin LoadIds
          \/ /\ LoadById(id).shipper_id # header
             /\ (header \notin UserIds \/ users[header].role # "admin")
       THEN /\ loads' = loads
            /\ last' = Outcome("delete_load", "403", "Unauthorized", <<>>)
       ELSE IF ReferencesLoad(id) # {}
       THEN /\ loads' = loads
            /\ last' = Outcome("delete_load", "500", "FOREIGN KEY", <<>>)
       ELSE /\ loads' = {l \in loads : l.id # id}
            /\ last' = Outcome("delete_load", "200", "", <<>>)
    /\ UNCHANGED <<users, messages, clock, tieOrder, rooms, received>>
    /\ UNCHANGED <<loadSeq, trucks, applications, reviews>>
    /\ UNCHANGED clientVars

\* DELETE /api/loads/:id (behind auth)
DeleteLoad(header, id) ==
    /\ IF ~AuthOk(header)
       THEN /\ loads' = loads
            /\ last' = Outcome("delete_load", "401", "Unauthorized", <<>>)
       ELSE IF \/ id \notin LoadIds
               \/ (LoadById(id).shipper_id # header /\ users[header].role # "admin")
       THEN /\ loads' = loads
            /\ last' = Outcome("delete_load", "403", "Unauthorized", <<>>)
       ELSE IF ReferencesLoad(id) # {}
       THEN \* an application references the load: the DELETE throws
            /\ loads' = loads
            /\ last' = Outcome("delete_load", "500", "FOREIGN KEY", <<>>)
       ELSE /\ loads' = {l \in loads : l.id # id}
            /\ last' = Outcome("delete_load", "200", "", <<>>)
    /\ UNCHANGED <<users, messages, clock, tieOrder, rooms, received>>
    /\ UNCHANGED <<loadSeq, trucks, applications, reviews>>
    /\ UNCHANGED clientVars

\* POST /api/trucks (behind auth); given = the body has the NOT NULL columns
\* current_location, truck_type and availability_date.
PostTruck(header, given) ==
    /\ BoardRows < MaxRows
    /\ IF ~AuthOk(header)
       THEN /\ trucks' = trucks
            /\ last' = Outcome("post_truck", "401", "Unauthorized", <<>>)
       ELSE IF users[header].role # "driver"
       THEN /\ trucks' = trucks
            /\ last' = Outcome("post_truck", "403", "Only drivers can post trucks", <<>>)
       ELSE IF ~given
       THEN /\ trucks' = trucks
            /\ last' = Outcome("post_truck", "500", "NOT NULL", <<>>)
       ELSE /\ trucks' = Append(trucks, [id |-> Len(trucks) + 1, driver_id |-> header])
            /\ last' = Outcome("post_truck", "200", "", <<[id |-> Len(trucks) + 1]>>)
    /\ UNCHANGED <<users, messages, clock, tieOrder, rooms, received>>
    /\ UNCHANGED <<loads, loadSeq, applications, reviews>>
    /\ UNCHANGED clientVars

\* POST /api/loads/:id/apply (behind auth)
Apply(header, loadId) ==
    /\ BoardRows < MaxRows
    /\ IF ~AuthOk(header)
       THEN /\ applications' = applications
            /\ last' = Outcome("apply", "401", "Unauthorized", <<>>)
       ELSE IF users[header].role # "driver"
       THEN /\ applications' = applications
            /\ last' = Outcome("apply", "403", "Only drivers can apply", <<>>)
       ELSE IF loadId \notin LoadIds
       THEN /\ applications' = applications
            /\ last' = Outcome("apply", "500", "FOREIGN KEY", <<>>)
       ELSE /\ applications' = Append(applications,
                  [id |-> Len(applications) + 1, load_id |-> loadId,
                   driver_id |-> header])
            /\ last' = Outcome("apply", "200", "", <<[id |-> Len(applications) + 1]>>)
    /\ UNCHANGED <<users, messages, clock, tieOrder, rooms, received>>
    /\ UNCHANGED <<loads, loadSeq, trucks, reviews>>
    /\ UNCHANGED clientVars

\* GET /api/shipper/applications (behind auth): the inner JOINs keep the
\* applications whose load and driver exist.
ShipperApplications(header) ==
    /\ IF ~AuthOk(header)
       THEN last' = Outcome("shipper_applications", "401", "Unauthorized", <<>>)
       ELSE last' = Outcome("shipper_applications", "200", "",
                ById({applications[k] : k \in {j \in DOMAIN applications :
                        /\ applications[j].load_id \in LoadIds
                        /\ applications[j].driver_id \in UserIds
                        /\ LoadById(applications[j].load_id).shipper_id = header}}))
    /\ UNCHANGED <<users, messages, clock, tieOrder, rooms, received>>
    /\ UNCHANGED boardVars
    /\ UNCHANGED clientVars

\* GET /api/stats (behind auth): activeLoads, completedLoads, totalUsers.
Stats(header) ==
    /\ IF ~AuthOk(header)
       THEN last' = Outcome("stats", "401", "Unauthorized", <<>>)
       ELSE last' = Outcome("stats", "200", "",
                <<[activeLoads |-> Cardinality(loads), completedLoads |-> 0,
                   totalUsers |-> Len(users)]>>)
    /\ UNCHANGED <<users, messages, clock, tieOrder, rooms, received>>
    /\ UNCHANGED boardVars
    /\ UNCHANGED clientVars

\* POST /api/reviews (behind auth); given = the body has the NOT NULL rating.
PostReview(header, revieweeId, given) ==
    /\ BoardRows < MaxRows
    /\ IF ~AuthOk(header)
       THEN /\ reviews' = reviews
            /\ last' = Outcome("post_review", "401", "Unauthorized", <<>>)
       ELSE IF ~given
       THEN /\ reviews' = reviews
            /\ last' = Outcome("post_review", "500", "NOT NULL", <<>>)
       ELSE IF revieweeId \notin UserIds
       THEN /\ reviews' = reviews
            /\ last' = Outcome("post_review", "500", "FOREIGN KEY", <<>>)
       ELSE /\ reviews' = Append(reviews,
                  [id |-> Len(reviews) + 1, reviewer_id |-> header,
                   reviewee_id |-> revieweeId])
            /\ last' = Outcome("post_review", "200", "", <<>>)
    /\ UNCHANGED <<users, messages, clock, tieOrder, rooms, received>>
    /\ UNCHANGED <<loads, loadSeq, trucks, applications>>
    /\ UNCHANGED clientVars

\* ----------------------------------------------------------------- client
\* The browser client (src/unnamed/part_000), on its messages page. The user
\* it is logged in as (AuthProvider: localStorage truckflow_user).
ClientUser == 1
\* The placeholder chat list of the page: [1, 2, 3].
Chats == {1, 2, 3}

\* fetchMessages of a render whose selectedChat is chat: the request carries
\* the user's id as its header. The request reaches the server at once and is
\* answered there; the response is then on its way for as long as it takes.
FetchMessages(chat) ==
    /\ chat # 0
    /\ Len(fetches) < MaxInFlight
    /\ last' = HistoryResponse(ClientUser, chat)
    /\ fetches' = Append(fetches, [chat |-> chat, res |-> last'])

\* Mutant: the effect returns no cleanup, the old interval keeps running.
SelectChatNoCleanup(i) ==
    /\ ~crashed
    /\ i # selectedChat
    /\ selectedChat' = i
    /\ FetchMessages(i)
    /\ intervals' = intervals \cup {i}
    /\ UNCHANGED <<shown, sends, crashed, user>>
    /\ UNCHANGED <<users, messages, clock, tieOrder, rooms, received>>
    /\ UNCHANGED boardVars

\* A click in the chat list: setSelectedChat(i); the cleanup of the old
\* effect clears the old interval, the effect of the new render fetches at
\* once and starts the new interval. The messages state is not touched.
\* (A click on the selected chat changes no state and runs no effect.)
SelectChat(i) ==
    /\ ~crashed
    /\ i # selectedChat
    /\ selectedChat' = i
    /\ FetchMessages(i)
    /\ intervals' = {i}
    /\ UNCHANGED <<shown, sends, crashed, user>>
    /\ UNCHANGED <<users, messages, clock, tieOrder, rooms, received>>
    /\ UNCHANGED boardVars

\* A running interval fires: setInterval(fetchMessages, 3000) calls the
\* fetchMessages of the render that started it.
PollTick ==
    /\ \E c \in intervals : FetchMessages(c)
    /\ UNCHANGED <<selectedChat, shown, intervals, sends, crashed, user>>
    /\ UNCHANGED <<users, messages, clock, tieOrder, rooms, received>>
    /\ UNCHANGED boardVars

\* What res.json() gives: the rows, or the error object of a refusal.
JsonOf(res) == IF res.status = "200" THEN res.body ELSE [error |-> res.error]

\* Mutant: the response is read and dropped (no setMessages).
DeliverDropped(k) ==
    /\ k \in DOMAIN fetches
    /\ shown' = shown
    /\ fetches' = [j \in 1..(Len(fetches) - 1) |->
                      IF j < k THEN fetches[j] ELSE fetches[j + 1]]
    /\ UNCHANGED <<users, messages, clock, tieOrder, rooms, received, last>>
    /\ UNCHANGED boardVars
    /\ UNCHANGED <<selectedChat, intervals, sends, crashed, user>>

\* A response arrives (in any order): const data = await res.json();
\* setMessages(data), whatever the status. When data is the error object
\* and no array, messages.map in the next render throws a TypeError; no
\* error boundary is there, so React unmounts the tree: the cleanup clears
\* the interval and the state of the page is gone.
Deliver(k) ==
    /\ k \in DOMAIN fetches
    /\ shown' = JsonOf(fetches[k].res)
    /\ IF fetches[k].res.status = "200"
       THEN /\ fetches' = [j \in 1..(Len(fetches) - 1) |->
                             IF j < k THEN fetches[j] ELSE fetches[j + 1]]
            /\ UNCHANGED <<selectedChat, intervals, sends, crashed, user>>
       ELSE /\ crashed' = TRUE
            /\ selectedChat' = 0
            /\ intervals' = {}
            /\ fetches' = <<>>
            /\ sends' = <<>>
            /\ user' = user
    /\ UNCHANGED <<users, messages, clock, tieOrder, rooms, received, last>>
    /\ UNCHANGED boardVars

\* The network fails or the body is no JSON: the awaited promise rejects,
\* fetchMessages ends with an unhandled rejection and sets no state.
FetchRejects(k) ==
    /\ k \in DOMAIN fetches
    /\ fetches' = [j \in 1..(Len(fetches) - 1) |->
                      IF j < k THEN fetches[j] ELSE fetches[j + 1]]
    /\ UNCHANGED <<selectedChat, shown, intervals, sends, crashed, user>>
    /\ UNCHANGED <<users, messages, clock, tieOrder, rooms, received, last>>
    /\ UNCHANGED boardVars

\* The text typed into the form (newMessage.trim() is not empty).
NewMessage == "hi"

\* handleSendMessage, up to its await: POST /api/messages/send with the
\* user's id as the header and {receiverId: selectedChat, content:
\* newMessage}. As for a fetch, the server handles the request at once (the
\* send route) and the response is on its way.
HandleSendMessage ==
    /\ selectedChat # 0
    /\ Len(messages) < MaxMsgs
    /\ Len(sends) < MaxInFlight
    /\ IF ~AuthOk(ClientUser)
       THEN /\ messages' = messages
            /\ last' = Outcome("rest_send", "401", "Unauthorized", <<>>)
       ELSE IF ~InsertOk(ClientUser, selectedChat, NewMessage)
       THEN /\ messages' = messages
            /\ last' = Outcome("rest_send", "500",
                               InsertError(ClientUser, selectedChat, NewMessage), <<>>)
       ELSE /\ messages' = InsertMessage(ClientUser, selectedChat, NewMessage)
            /\ last' = Outcome("rest_send", "200", "", <<messages'[Len(messages')]>>)
    /\ sends' = Append(sends, [chat |-> selectedChat, ok |-> last'.status = "200"])
    /\ UNCHANGED <<selectedChat, shown, fetches, intervals, crashed, user>>
    /\ UNCHANGED <<users, clock, tieOrder, rooms, received>>
    /\ UNCHANGED boardVars

\* handleSendMessage after its await: if (res.ok) { setNewMessage('');
\* fetchMessages(); } with the fetchMessages of the render that submitted.
SendResolves(k) ==
    /\ k \in DOMAIN sends
    /\ sends' = [j \in 1..(Len(sends) - 1) |->
                    IF j < k THEN sends[j] ELSE sends[j + 1]]
    /\ IF sends[k].ok
       THEN FetchMessages(sends[k].chat)
       ELSE UNCHANGED <<fetches, last>>
    /\ UNCHANGED <<selectedChat, shown, intervals, crashed, user>>
    /\ UNCHANGED <<users, messages, clock, tieOrder, rooms, received>>
    /\ UNCHANGED boardVars

\* The user leaves the messages page: the component unmounts, the cleanup of
\* its effect clears the interval, and its state is gone (a response that
\* arrives later sets the state of no mounted component).
LeavePage ==
    /\ selectedChat # 0
    /\ selectedChat' = 0
    /\ shown' = <<>>
    /\ fetches' = <<>>
    /\ intervals' = {}
    /\ sends' = <<>>
    /\ UNCHANGED <<crashed, user>>
    /\ UNCHANGED <<users, messages, clock, tieOrder, rooms, received, last>>
    /\ UNCHANGED boardVars

\* The user logs out and in again with the credentials of the account:
\* AuthProvider.login posts them and, on success, keeps the row of the
\* response with setUser and in localStorage. (No other code of the client
\* writes the user; GET /api/users/me is never called.)
LoginAgain ==
    /\ ~crashed
    /\ selectedChat = 0
    /\ last' = Outcome("login", "200", "", <<users[ClientUser]>>)
    /\ user' = users[ClientUser]
    /\ UNCHANGED <<selectedChat, shown, fetches, intervals, sends, crashed>>
    /\ UNCHANGED <<users, messages, clock, tieOrder, rooms, received>>
    /\ UNCHANGED boardVars

\* ------------------------------------------------------------------- spec
\* The database file outlives the process (CREATE TABLE IF NOT EXISTS): the
\* server starts on a store that holds the users signed up so far.
Init ==
    /\ users = <<UserRow(1, "a@x", "shipper"), UserRow(2, "b@x", "driver")>>
    /\ messages = <<>>
    /\ clock = 0
    /\ tieOrder \in {"rowid_asc", "rowid_desc"}
    /\ rooms = [s \in Sockets |-> {}]
    /\ received = [s \in Sockets |-> <<>>]
    /\ last = Outcome("start", "ok", "", <<>>)
    /\ loads = {}
    /\ loadSeq = 0
    /\ trucks = <<>>
    /\ applications = <<>>
    /\ reviews = <<>>
    /\ selectedChat = 0
    /\ shown = <<>>
    /\ fetches = <<>>
    /\ intervals = {}
    /\ sends = <<>>
    /\ crashed = FALSE
    /\ user = users[ClientUser]

Next ==
    \/ \E email \in Emails, role \in Roles : Signup(email, role)
    \/ \E h \in Headers, r \in Ids, c \in Contents : RestSend(h, r, c)
    \/ \E h \in Headers, o \in Ids : GetMessages(h, o)
    \/ \E s \in Sockets, u \in Ids : Join(s, u)
    \/ \E s \in Sockets : Disconnect(s)
    \/ \E s \in Sockets, a \in Ids, r \in Ids, c \in Contents : SocketSend(s, a, r, c)
    \/ Tick
    \/ \E email \in Emails, pw \in BOOLEAN : Login(email, pw)
    \/ \E h \in Headers : UsersMe(h)
    \/ \E h \in Headers : AdminUsers(h)
    \/ \E h \in Headers, id \in Ids : Approve(h, id)
    \/ GetLoads
    \/ \E h \in Headers, given \in BOOLEAN : PostLoad(h, given)
    \/ \E h \in Headers : ShipperLoads(h)
    \/ \E h \in Headers, id \in Ids : DeleteLoad(h, id)
    \/ \E h \in Headers, given \in BOOLEAN : PostTruck(h, given)
    \/ \E h \in Headers, id \in Ids : Apply(h, id)
    \/ \E h \in Headers : ShipperApplications(h)
    \/ \E h \in Headers : Stats(h)
    \/ \E h \in Headers, r \in Ids, given \in BOOLEAN : PostReview(h, r, given)

    \/ \E i \in Chats : SelectChat(i)
    \/ PollTick
    \/ \E k \in 1..MaxInFlight : Deliver(k)
    \/ LeavePage
    \/ HandleSendMessage
    \/ \E k \in 1..MaxInFlight : SendResolves(k)
    \/ \E k \in 1..MaxInFlight : FetchRejects(k)
    \/ LoginAgain

Spec == Init /\ [][Next]_vars

\* The store and its message routes among the users of the initial store,
\* with no connection in any room.
NextStore ==
    \/ \E h \in Headers, r \in Ids, c \in Contents : RestSend(h, r, c)
    \/ \E h \in Headers, o \in Ids : GetMessages(h, o)
    \/ \E s \in Sockets, a \in Ids, r \in Ids, c \in Contents : SocketSend(s, a, r, c)
    \/ Tick

SpecStore == Init /\ [][NextStore]_vars

\* The chat: both send paths and the rooms, among the users of the initial
\* store, within one second of the store's clock and with one text.
ChatContents == {NullContent, "hi"}

InitChat == Init /\ tieOrder = "rowid_asc"

NextChat ==
    \/ \E h \in Headers, r \in Ids, c \in ChatContents : RestSend(h, r, c)
    \/ \E s \in Sockets, u \in Ids : Join(s, u)
    \/ \E s \in Sockets : Disconnect(s)
    \/ \E s \in Sockets, a \in Ids, r \in Ids, c \in ChatContents : SocketSend(s, a, r, c)

SpecChat == InitChat /\ [][NextChat]_vars

\* The load board: accounts, approval and the routes of the board tables.
\* Reviews address the account that signs up in the run (an unknown user
\* before that); of the message routes there are the history and the sends
\* that the auth middleware refuses.
Reviewees == {Cardinality(Emails)}

NextBoard ==
    \/ \E email \in Emails, role \in Roles : Signup(email, role)
    \/ \E email \in Emails, pw \in BOOLEAN : Login(email, pw)
    \/ \E h \in Headers : UsersMe(h)
    \/ \E h \in Headers : AdminUsers(h)
    \/ \E h \in Headers, id \in Ids : Approve(h, id)
    \/ GetLoads
    \/ \E h \in Headers, given \in BOOLEAN : PostLoad(h, given)
    \/ \E h \in Headers : ShipperLoads(h)
    \/ \E h \in Headers, id \in Ids : DeleteLoad(h, id)
    \/ \E h \in Headers, given \in BOOLEAN : PostTruck(h, given)
    \/ \E h \in Headers, id \in Ids : Apply(h, id)
    \/ \E h \in Headers : ShipperApplications(h)
    \/ \E h \in Headers : Stats(h)
    \/ \E h \in Headers, r \in Reviewees, given \in BOOLEAN : PostReview(h, r, given)
    \/ \E h \in Headers, o \in Ids : GetMessages(h, o)
    \/ \E h \in Headers, r \in Ids, c \in ChatContents :
            ~AuthOk(h) /\ RestSend(h, r, c)

InitBoard == Init /\ tieOrder = "rowid_asc"

SpecBoard == InitBoard /\ [][NextBoard]_vars

\* The messages page of the client of user 1 while messages are sent by the
\* route (which publishes nothing) between the users of the initial store:
\* the interval fires as long as a chat is selected, and every response
\* arrives.
NextPoll ==
    \/ \E i \in Chats : SelectChat(i)
    \/ PollTick
    \/ \E k \in 1..MaxInFlight : Deliver(k)
    \/ LeavePage
    \/ \E h \in UserIds, r \in UserIds : RestSend(h, r, "hi")

InitPoll == Init /\ tieOrder = "rowid_asc"

SpecPoll ==
    /\ InitPoll /\ [][NextPoll]_vars
    /\ WF_vars(PollTick)
    /\ WF_vars(\E k \in 1..MaxInFlight : Deliver(k))

\* The messages page while its user sends: the form, the poll loop and the
\* chat list, with no other sender.
NextSend ==
    \/ \E i \in Chats : SelectChat(i)
    \/ PollTick
    \/ \E k \in 1..MaxInFlight : Deliver(k)
    \/ HandleSendMessage
    \/ \E k \in 1..MaxInFlight : SendResolves(k)

SpecSend == InitPoll /\ [][NextSend]_vars

\* The messages page of a browser that outlived the store: truckflow.db was
\* recreated (the server starts on empty tables) while localStorage still
\* holds the user with id 1; shippers sign up anew and write to user 1.
InitLost ==
    /\ users = <<>>
    /\ messages = <<>>
    /\ clock = 0
    /\ tieOrder = "rowid_asc"
    /\ rooms = [s \in Sockets |-> {}]
    /\ received = [s \in Sockets |-> <<>>]
    /\ last = Outcome("start", "ok", "", <<>>)
    /\ loads = {} /\ loadSeq = 0 /\ trucks = <<>>
    /\ applications = <<>> /\ reviews = <<>>
    /\ selectedChat = 0 /\ shown = <<>> /\ fetches = <<>>
    /\ intervals = {} /\ sends = <<>> /\ crashed = FALSE
    /\ user = UserRow(ClientUser, "a@x", "shipper")

NextLost ==
    \/ \E email \in Emails : Signup(email, "shipper")
    \/ \E h \in UserIds : RestSend(h, ClientUser, "hi")
    \/ \E i \in Chats : SelectChat(i)
    \/ PollTick
    \/ \E k \in 1..MaxInFlight : Deliver(k)
    \/ \E k \in 1..MaxInFlight : FetchRejects(k)

SpecLost == InitLost /\ [][NextLost]_vars

\* The session of user 1 while an admin signs up and approves accounts: the
\* login page, the messages page and its poll loop. The interval fires as
\* long as a chat is selected and every response arrives.
NextSession ==
    \/ \E email \in Emails : Signup(email, "admin")
    \/ \E h \in Headers, id \in Ids : Approve(h, id)
    \/ LoginAgain
    \/ \E i \in Chats : SelectChat(i)
    \/ PollTick
    \/ \E k \in 1..MaxInFlight : Deliver(k)

SpecSession ==
    /\ InitPoll /\ [][NextSession]_vars
    /\ WF_vars(PollTick)
    /\ WF_vars(\E k \in 1..MaxInFlight : Deliver(k))

\* The account routes alone: signup, login, the two user listings and the
\* approval.
NextAccounts ==
    \/ \E email \in Emails, role \in Roles : Signup(email, role)
    \/ \E email \in Emails, pw \in BOOLEAN : Login(email, pw)
    \/ \E h \in Headers : UsersMe(h)
    \/ \E h \in Headers : AdminUsers(h)
    \/ \E h \in Headers, id \in Ids : Approve(h, id)

SpecAccounts == InitBoard /\ [][NextAccounts]_vars

\* The two REST message routes alone, with one content.
NextHistory ==
    \/ \E h \in Headers, r \in Ids : RestSend(h, r, NewMessage)
    \/ \E h \in Headers, o \in Ids : GetMessages(h, o)

SpecHistory == Init /\ [][NextHistory]_vars

\* ------------------------------------------------------------ properties
Occurrences(seq, x) == Cardinality({k \in DOMAIN seq : seq[k] = x})

SameConversation(m, n) ==
    {m.sender_id, m.receiver_id} = {n.sender_id, n.receiver_id}

AllValid(H) == \A k \in DOMAIN H : H[k].content # ""

\* C1: after a successful send with non-empty content between existing users,
\* history(sender, receiver) holds the sent message exactly once, and holds it
\* last when no later message of the conversation was inserted (stated for
\* conversations of non-empty messages).
C1_SentIsOnceAndLast ==
    \A i \in 1..Len(messages) :
        LET m == messages[i]
            H == History(m.sender_id, m.receiver_id)
        IN  AllValid(H) =>
              /\ Occurrences(H, m) = 1
              /\ (\A j \in (i + 1)..Len(messages) : ~SameConversation(messages[j], m))
                    => H[Len(H)] = m

\* C7: every history is non-decreasing by creation time, and messages of one
\* creation time come in increasing identifier order.
C7_OrderedByTimeThenId ==
    \A a \in Ids, b \in Ids :
        LET H == History(a, b)
        IN  AllValid(H) => \A k \in 1..(Len(H) - 1) :
              \/ H[k].created_at < H[k + 1].created_at
              \/ H[k].created_at = H[k + 1].created_at /\ H[k].id < H[k + 1].id

\* C4: a send with empty content, by the route or by the socket event, fails
\* and leaves the stored messages as they were.
C4_EmptyContentRejected ==
    [][\A r \in Ids :
          /\ \A h \in Headers : RestSend(h, r, "") =>
                (messages' = messages /\ last'.status # "200")
          /\ \A s \in Sockets, a \in Ids : SocketSend(s, a, r, "") =>
                (messages' = messages /\ last'.status # "ok")]_vars

\* C6: in every store state history(A, B) and history(B, A) are the same
\* ordered sequence.
C6_HistorySymmetric ==
    \A a \in Ids, b \in Ids : History(a, b) = History(b, a)

\* A history response that holds messages of both directions, two of them of
\* the same second.
C6_Witness ==
    /\ last.op = "history" /\ last.status = "200" /\ Len(last.body) = 2
    /\ last.body[1].sender_id = last.body[2].receiver_id
    /\ last.body[1].receiver_id = last.body[2].sender_id
    /\ last.body[1].sender_id # last.body[1].receiver_id
    /\ last.body[1].created_at = last.body[2].created_at

\* C9: no step edits or deletes a stored message: every row stays in place
\* with its identifier, sender, receiver, content and creation time.
C9_AppendOnly ==
    [][/\ Len(messages') >= Len(messages)
       /\ \A i \in 1..Len(messages) : messages'[i] = messages[i]]_vars

\* The table is full, by both send paths, and has been read.
C9_Witness ==
    /\ Len(messages) = MaxMsgs
    /\ last.op = "history" /\ last.status = "200" /\ last.body # <<>>
    /\ clock > messages[1].created_at

\* C10: the sender and the receiver of every stored message are identifiers
\* of existing users, whichever path stored it.
C10_ReferentialIntegrity ==
    \A i \in 1..Len(messages) :
        messages[i].sender_id \in UserIds /\ messages[i].receiver_id \in UserIds

\* A socket send with a sender or receiver that is no user has been refused
\* while the table holds a message.
C10_Witness ==
    /\ last.op = "socket_send" /\ last.status = "thrown"
    /\ last.error = "FOREIGN KEY"
    /\ messages # <<>>

\* The step stored a message (either send path succeeded).
Stored == Len(messages') = Len(messages) + 1
\* receive_message events for message m emitted to connection s by the step.
NewEvents(s, m) == Occurrences(received'[s], m) - Occurrences(received[s], m)

\* C2: for every send, a connection that joined the sender's or the receiver's
\* identifier gets exactly one receive_message event for the message (also when
\* sender = receiver), and a connection that joined neither gets none
\* (stated for the sends of the socket event, the path that publishes).
C2_ExactlyOneEvent ==
    [][((\E s \in Sockets, a \in Ids, r \in Ids, c \in Contents :
            SocketSend(s, a, r, c)) /\ Stored) =>
        LET m == messages'[Len(messages')]
        IN  \A s \in Sockets :
              NewEvents(s, m) =
                IF rooms[s] \cap {m.sender_id, m.receiver_id} # {} THEN 1 ELSE 0]_vars

\* C3: a successful send by the route and one by the socket event have the
\* same effect: one message is stored and then published to the room of the
\* sender and to the room of the receiver.
C3_BothPathsPublish ==
    [][\A a \in Ids, r \in Ids, c \in Contents :
          ((RestSend(a, r, c) \/ \E s \in Sockets : SocketSend(s, a, r, c)) /\ Stored) =>
            LET m == messages'[Len(messages')]
            IN  /\ m = MessageRow(Len(messages) + 1, a, r, c)
                /\ \A s \in Sockets :
                      rooms[s] \cap {a, r} # {} => NewEvents(s, m) >= 1]_vars

\* C5: a send whose receiver is no existing user fails: the stored messages
\* are unchanged and no receive_message event is emitted to any connection.
\* (Contrapositive: a step that changes the messages or the events, or that
\* reports a new outcome other than a failure, is no send to an unknown
\* receiver.)
C5_UnknownReceiverRejected ==
    [][(messages' # messages \/ received' # received
            \/ (last' # last /\ last'.status \notin {"401", "500", "thrown"})) =>
        \A r \in Ids \ UserIds, c \in Contents :
            /\ \A h \in Headers : ~RestSend(h, r, c)
            /\ \A s \in Sockets, a \in Ids : ~SocketSend(s, a, r, c)]_vars

\* A socket send was refused for its foreign key after every earlier message
\* had been pushed to the connection.
C5_Witness ==
    /\ last.op = "socket_send" /\ last.status = "thrown"
    /\ last.error = "FOREIGN KEY"
    /\ \A s \in Sockets : Len(received[s]) = Len(messages) /\ messages # <<>>

\* C8: a message is visible to its two participants only: a history holds
\* only messages of its caller, and a receive_message event reaches only
\* connections of the message's sender or receiver.
C8_OnlyParticipantsSee ==
    /\ \A c \in UserIds, o \in Ids :
          \A k \in DOMAIN History(c, o) :
              c \in {History(c, o)[k].sender_id, History(c, o)[k].receiver_id}
    /\ \A s \in Sockets :
          \A k \in DOMAIN received[s] :
              Party(s) \in {received[s][k].sender_id, received[s][k].receiver_id}

\* C11: a message is published only after its insert succeeded (every event
\* carries a stored row), and on a connection the events of two messages of
\* one conversation come in the order the messages were persisted.
C11_PublishAfterPersist ==
    \A s \in Sockets :
        \A k \in DOMAIN received[s] :
            LET e == received[s][k]
            IN  /\ e.id \in 1..Len(messages) /\ messages[e.id] = e
                /\ \A j \in 1..(k - 1) :
                      SameConversation(received[s][j], e) => received[s][j].id <= e.id

\* A connection holds the events of two messages of one conversation.
C11_Witness ==
    \E s \in Sockets :
        \E j \in DOMAIN received[s], k \in DOMAIN received[s] :
            /\ j < k /\ received[s][j].id # received[s][k].id
            /\ SameConversation(received[s][j], received[s][k])

\* C12: delivery is at most once per connection: no connection gets more than
\* one receive_message event for a stored message, and a connection that is
\* in no room when the message is published gets none.
C12_AtMostOnce ==
    [][\A s \in Sockets :
          /\ \A i \in 1..Len(messages') :
                Occurrences(received'[s], messages'[i]) <= 1
          /\ rooms[s] = {} => received'[s] = received[s]]_vars

\* C13: every connection is in at most one user room, whatever joins it made.
C13_OneRoomPerConnection ==
    \A s \in Sockets : Cardinality(rooms[s]) <= 1

\* C20: history is read-only and idempotent: a history request leaves the
\* store as it was, and as long as no message is sent a further call of the
\* history that was answered returns the sequence of that answer.
C20_HistoryIdempotent ==
    [][(last'.op = "history" \/ Len(messages') = Len(messages)) =>
          /\ messages' = messages /\ users' = users
          /\ (last'.op = "history" /\ last'.body # <<>>) =>
                (History(last.body[1].sender_id, last.body[1].receiver_id) = last.body)']_vars

\* A history of two messages of different seconds and senders was returned.
C20_Witness ==
    /\ last.op = "history" /\ last.status = "200" /\ Len(last.body) = 2
    /\ last.body[1].created_at < last.body[2].created_at
    /\ last.body[1].sender_id # last.body[2].sender_id
    /\ last.body = History(1, 2)

\* The tables of the store.
store == <<users, messages, loads, loadSeq, trucks, applications, reviews>>

\* A request of caller h to one of the routes behind the auth middleware
\* (each route is looked at only in the steps that report its outcome).
AuthenticatedRequest(h) ==
    \/ last'.op = "me" /\ UsersMe(h)
    \/ last'.op = "admin_users" /\ AdminUsers(h)
    \/ last'.op = "shipper_loads" /\ ShipperLoads(h)
    \/ last'.op = "shipper_applications" /\ ShipperApplications(h)
    \/ last'.op = "stats" /\ Stats(h)
    \/ last'.op = "approve" /\ \E id \in Ids : Approve(h, id)
    \/ last'.op = "delete_load" /\ \E id \in Ids : DeleteLoad(h, id)
    \/ last'.op = "apply" /\ \E id \in Ids : Apply(h, id)
    \/ last'.op = "post_load" /\ \E given \in BOOLEAN : PostLoad(h, given)
    \/ last'.op = "post_truck" /\ \E given \in BOOLEAN : PostTruck(h, given)
    \/ last'.op = "post_review" /\ \E r \in Ids, given \in BOOLEAN : PostReview(h, r, given)
    \/ last'.op = "history" /\ \E o \in Ids : GetMessages(h, o)
    \/ last'.op = "rest_send" /\ \E r \in Ids, c \in Contents : RestSend(h, r, c)

\* C15: a request to a route behind the auth middleware whose header is
\* missing or names no existing user is answered 401 "Unauthorized" (the
\* handler's own answers never come) and leaves every table as it was.
\* (Contrapositive: a step that changes a table or reports anything else is no
\* such request.)
C15_UnauthenticatedRefused ==
    [][(store' # store \/ last'.status # "401" \/ last'.error # "Unauthorized") =>
        \A h \in Headers : ~AuthOk(h) => ~AuthenticatedRequest(h)]_vars

\* A delete of an existing load was refused for a header that names no user.
C15_Witness ==
    /\ last.op = "delete_load" /\ last.status = "401"
    /\ loads # {} /\ Len(users) < Cardinality(Emails)

\* A request that the route refuses for the caller's role.
RoleMismatch(h) ==
    \/ /\ users[h].role # "driver"
       /\ \/ last'.op = "apply" /\ \E id \in Ids : Apply(h, id)
          \/ last'.op = "post_truck" /\ \E given \in BOOLEAN : PostTruck(h, given)
    \/ /\ users[h].role # "shipper"
       /\ last'.op = "post_load" /\ \E given \in BOOLEAN : PostLoad(h, given)
    \/ /\ users[h].role # "admin"
       /\ \/ last'.op = "admin_users" /\ AdminUsers(h)
          \/ last'.op = "approve" /\ \E id \in Ids : Approve(h, id)

\* C16: a caller who is no driver creates no application and no truck, one
\* who is no shipper no load, and one who is no admin neither lists nor
\* approves users: each such request gets 403 and leaves every table as it
\* was. (Contrapositive, as for C15.)
C16_RoleMismatchRefused ==
    [][(store' # store \/ last'.status # "403") =>
        \A h \in UserIds : ~RoleMismatch(h)]_vars

\* An approve by a caller who is no admin was refused while an admin exists
\* and a user is still unapproved.
C16_Witness ==
    /\ last.op = "approve" /\ last.status = "403"
    /\ \E i \in UserIds : users[i].role = "admin"
    /\ \E i \in UserIds : users[i].is_approved = 0

\* C17: the approval flag gates posting: every load and every truck is owned
\* by an approved user.
C17_ApprovalGatesPosting ==
    /\ \A l \in loads : users[l.shipper_id].is_approved = 1
    /\ \A k \in DOMAIN trucks : users[trucks[k].driver_id].is_approved = 1

\* C18: signup creates the user with approval flag 0, or 1 for the admin
\* role; after that the users change only by an admin's approve, which sets
\* the flag of the addressed user to 1 and nothing else, so no flag goes from
\* 1 back to 0.
C18_UsersChangeBySignupAndApprove ==
    [][users' # users =>
        \/ /\ last'.op = "signup"
           /\ Len(users') = Len(users) + 1
           /\ \A i \in UserIds : users'[i] = users[i]
           /\ users'[Len(users')].is_approved =
                 (IF users'[Len(users')].role = "admin" THEN 1 ELSE 0)
        \/ /\ last'.op = "approve"
           /\ \E id \in UserIds :
                 users' = [users EXCEPT ![id] = [@ EXCEPT !.is_approved = 1]]]_vars

\* A user who signed up unapproved has been approved, another one not.
C18_Witness ==
    /\ \E i \in UserIds : users[i].role # "admin" /\ users[i].is_approved = 1
    /\ \E i \in UserIds : users[i].is_approved = 0
    /\ last.op = "approve" /\ last.status = "200"

\* C19: every failing request is answered 400, 401 or 403 (no request ends in
\* another status).
C19_FailuresAnswered4xx ==
    last.op \notin {"start", "socket_send"} =>
        last.status \in {"200", "400", "401", "403"}

\* Every stored message of the selected conversation is in the rendered list.
UpToDate ==
    \A i \in 1..Len(messages) :
        WhereMatches(messages[i], ClientUser, selectedChat, selectedChat, ClientUser)
            => \E k \in DOMAIN shown : shown[k] = messages[i]

\* C14: while a conversation stays selected and the poll loop runs, every
\* stored message of the conversation (pushed or not) comes to be in the
\* client's message list.
C14_PollShowsPersisted ==
    \A c \in Chats :
        (selectedChat = c /\ ~UpToDate) ~> (selectedChat # c \/ UpToDate)

\* The conversation with user 2 is selected and the client shows its two
\* messages, which were stored by the route and pushed to no connection.
C14_Witness ==
    /\ selectedChat = 2 /\ Len(shown) = 2 /\ shown = History(ClientUser, 2)
    /\ \A s \in Sockets : received[s] = <<>>

\* No message is stored between users a and b.
NoneBetween(a, b) ==
    \A i \in 1..Len(messages) :
        {messages[i].sender_id, messages[i].receiver_id} # {a, b}

\* C21: for an authenticated caller, the history with an otherId with whom no
\* message exists (an otherId that is no user included) is answered with
\* status 200 and the empty sequence. (Contrapositive: a history step that
\* reports anything else is no such request.)
C21_EmptyHistoryIsSuccess ==
    [][(last' # last /\ last'.op = "history"
            /\ ~(last'.status = "200" /\ last'.body = <<>>)) =>
        \A h \in UserIds, o \in Ids :
            NoneBetween(h, o) => ~GetMessages(h, o)]_vars

\* An empty history was answered while the table is full.
C21_Witness ==
    /\ last.op = "history" /\ last.status = "200" /\ last.body = <<>>
    /\ Len(messages) = MaxMsgs

\* C22: no two users have the same email, and a signup with the email of an
\* existing user is answered 400 and creates no user.
C22_EmailsUnique ==
    [][/\ users' # users =>
             \A i \in 1..Len(users'), j \in 1..Len(users') :
                 i # j => users'[i].email # users'[j].email
       /\ (last' # last /\ last'.op = "signup") =>
             \A e \in Emails, r \in Roles :
                 ((\E i \in UserIds : users[i].email = e) /\ Signup(e, r)) =>
                     (last'.status = "400" /\ users' = users)]_vars

\* A signup was refused for its email after the third account was created.
C22_Witness ==
    /\ last.op = "signup" /\ last.status = "400"
    /\ Len(users) = Cardinality(Emails)

\* C27: every send runs to its end before the next event: the record it
\* returns (route) or publishes (socket event) is the row this send inserted,
\* with its sender, receiver and content, and the row's identifier is new.
C27_SendReturnsItsOwnRow ==
    [][Stored =>
        LET m == messages'[Len(messages')]
        IN  /\ \A i \in 1..Len(messages) : messages[i].id # m.id
            /\ last'.body = <<m>>
            /\ \/ RestSend(m.sender_id, m.receiver_id, m.content)
               \/ \E s \in Sockets :
                     SocketSend(s, m.sender_id, m.receiver_id, m.content)
            /\ \A s \in Sockets :
                  \A k \in (Len(received[s]) + 1)..Len(received'[s]) :
                      received'[s][k] = m]_vars

\* The route has answered a second send, after a send of the socket event
\* that was pushed to the connection.
C27_Witness ==
    /\ last.op = "rest_send" /\ last.status = "200" /\ Len(messages) = 2
    /\ last.body = <<messages[2]>>
    /\ \E s \in Sockets : received[s] # <<>>

\* C29: the sender of a stored message is the identity its submitter was
\* authenticated as: the caller of the route, and on the socket path the user
\* who operates the connection.
C29_SenderIsSubmitter ==
    [][Stored =>
        LET m == messages'[Len(messages')]
        IN  /\ \A h \in Headers :
                  RestSend(h, m.receiver_id, m.content) => m.sender_id = h
            /\ \A s \in Sockets :
                  SocketSend(s, m.sender_id, m.receiver_id, m.content)
                      => m.sender_id = Party(s)]_vars

\* The load the request addresses may be deleted by the caller.
MayDelete(h, id) ==
    /\ id \in LoadIds
    /\ (LoadById(id).shipper_id = h \/ users[h].role = "admin")

\* C30: a delete by a caller who is neither the owning shipper nor an admin,
\* or of a load that does not exist, gets 403 and leaves the loads as they
\* were; a permitted delete removes the addressed load and no other row.
C30_DeleteByOwnerOrAdmin ==
    [][(last' # last /\ last'.op = "delete_load") =>
        \A h \in UserIds, id \in Ids :
            DeleteLoad(h, id) =>
                IF MayDelete(h, id)
                THEN /\ loads' = {l \in loads : l.id # id}
                     /\ UNCHANGED <<users, messages, trucks, applications, reviews>>
                ELSE last'.status = "403" /\ loads' = loads]_vars

\* C23: a response of a fetch that was issued for a conversation that is no
\* longer selected is discarded, and the rendered list holds only messages of
\* the selected conversation.
C23_StaleResponseDiscarded ==
    [][/\ \A k \in DOMAIN fetches :
             (Deliver(k) /\ fetches[k].chat # selectedChat) => shown' = shown
       /\ \A k \in DOMAIN shown' :
             WhereMatches(shown'[k], ClientUser, selectedChat', selectedChat', ClientUser)]_vars

\* C24: selecting a conversation issues one fetch for it at once and leaves
\* its interval as the only one running; every fetch that is issued is for
\* the conversation selected then; when the page is left no interval runs.
C24_OneIntervalForSelected ==
    [][/\ intervals' = IF selectedChat' = 0 THEN {} ELSE {selectedChat'}
       /\ selectedChat' \notin {selectedChat, 0} =>
             /\ Len(fetches') = Len(fetches) + 1
             /\ fetches'[Len(fetches')].chat = selectedChat'
       /\ Len(fetches') > Len(fetches) =>
             /\ Len(fetches') = Len(fetches) + 1
             /\ fetches'[Len(fetches')].chat = selectedChat'
             /\ \A k \in DOMAIN fetches : fetches'[k] = fetches[k]]_vars

\* The selection went from one chat to another while the response of the
\* first was on its way, and the interval of the second has fired.
C24_Witness ==
    /\ Len(fetches) = 2 /\ fetches[1].chat # selectedChat
    /\ fetches[2].chat = selectedChat /\ intervals = {selectedChat}
    /\ shown # <<>>

\* C26: every send request that resolves is followed at once, in the same
\* step, by a fetch of the history of the selected conversation (and no step
\* but a resolving send and a tick or a selection issues a fetch).
C26_ResolvedSendRefetches ==
    [][\A k \in DOMAIN sends :
          SendResolves(k) =>
              /\ Len(fetches') = Len(fetches) + 1
              /\ fetches'[Len(fetches')].chat = selectedChat]_vars

\* C25: a history fetch that fails, by a network failure or by a response
\* that is no success, leaves the rendered list as it was (a list of
\* messages), surfaces nothing, and the interval keeps running.
C25_FailedFetchSwallowed ==
    [][\A k \in DOMAIN fetches :
          (FetchRejects(k) \/ (fetches[k].res.status # "200" /\ Deliver(k))) =>
              (shown' = shown /\ ~crashed' /\ intervals' = intervals)]_vars

\* C28: after an admin approved the user, the user record held by the user's
\* client comes to show the approval flag of the store while the client keeps
\* polling.
C28_ClientSeesApproval ==
    (users[ClientUser].is_approved = 1 /\ intervals # {})
        ~> (user.is_approved = 1 \/ intervals = {})

====
